---- MODULE Spec2Model ----
(***************************************************************************)
(* Model of the batch script of src/aws: ProcessPatients.process_patients  *)
(* and the per-patient workflow it drives (process_patient, process_pnr,   *)
(* login, _fetch_pic_from_database, _check_request_accepted).              *)
(*                                                                         *)
(* The collaborators that are imported by src/aws/process.py but are not   *)
(* part of src/ (RULES_ENGINE, PNR_STATUS_MANAGER, Response, WebDriver,    *)
(* check_pdf, fetch_telerik_pdf, catch_all_exceptions) are modelled by     *)
(* what the specification says of them; every call made to them is         *)
(* recorded in `log`, in the order the code makes it.                      *)
(***************************************************************************)
EXTENDS Integers, Sequences, FiniteSets, TLC

VARIABLES
    mapping,       \* self.config_yaml["mapping"]["csv"]
    rules_config,  \* self.config_yaml: the state of its rule set
    username,      \* self.username
    password,      \* self.password
    rows,          \* the rows of the intake file (path_file_input)
    patients,      \* process_patients: the local list `patients`
    pc,            \* position in process_patients / process_patient / process_pnr
    idx,           \* index of the patient of the `for patient in patients` loop
    ref,           \* index of the pnr of the `for pnr in patient_data["pnr"]` loop
    patient_data,  \* process_patient: the dict of the current patient
    comments,      \* process_patient: the list `comments`
    error_codes,   \* process_pnr: the local `error_codes`
    response,      \* what self.response.add_patient has been handed
    log,           \* every call made to a collaborator, in order
    error,         \* the exception that left process_patients, or NoError
    acc            \* one run of _check_request_accepted, followed step by step

vars == <<mapping, rules_config, username, password, rows, patients, pc, idx, ref, patient_data,
          comments, error_codes, response, log, error, acc>>

-----------------------------------------------------------------------------
(* Bounds of the model.                                                    *)

\* The most rows (patients) of an intake file.
MaxPatients == 2
\* The most references (pnr codes) of an intake file, all rows together.
MaxBatchRefs == 3
\* The most k-items of the portal's category list.
MaxOffered == 2

-----------------------------------------------------------------------------
(* Values.                                                                 *)

\* Python's None.
None == "None"

\* No exception has left process_patients.
NoError == [kind |-> "none", pat |-> 0]

\* datetime.now(), as <<year, month>>.
Now == <<2024, 6>>

\* The birthdays of the intake rows, as <<year, month>>.
Birthdays == {<<2014, 1>>, <<2006, 9>>, <<1984, 3>>}

\* The values PNR_STATUS_MANAGER.get_pnr_status returns: 1 is awaiting manual
\* approval, 2 is already approved, anything else is not actionable.
PnrStatuses == {0, 1, 2}

\* check_pdf(pic_number, insurance_name, fiscal_code): the error codes of the
\* document stored under the pic. The documents of the portal are a fixture:
\* the one of every second pnr carries an error.
CheckPdf(pic) == IF pic[3] % 2 = 0 THEN <<"E1">> ELSE <<>>

\* The two fixed fallback categories of _check_request_accepted.
VisiteSpecialistiche == "Visite specialistiche"
AltrePrestazioni == "Altre prestazioni"

\* The texts a k-item of the portal's category list may carry.
ItemTexts == {"Prevenzione", "Ecografie in gravidanza", VisiteSpecialistiche,
              AltrePrestazioni, "Chirurgia dermatologica"}

\* The service categories an intake row may request.
RequestedCategories == {"Prevenzione", "Ecografie in gravidanza",
                        VisiteSpecialistiche, AltrePrestazioni}

\* The usernames and passwords the environment may hold: unset (os.getenv
\* returns None), the empty string, or a value.
Usernames == {None, "", "user"}
Passwords == {None, "", "secret"}

\* The column types _parse_input_from_hospital has a branch for.
KnownTypes == {"string", "array", "bool", "date"}

\* mapping.csv of the configuration: the columns of the rows of the model.
ColumnMapping ==
    << [var_name |-> "birthday",       coltype |-> "date"],
       [var_name |-> "pnr",            coltype |-> "array"],
       [var_name |-> "prestazioni",    coltype |-> "string"],
       [var_name |-> "esame",          coltype |-> "string"],
       [var_name |-> "insurance_name", coltype |-> "string"],
       [var_name |-> "codice_fiscale", coltype |-> "string"] >>

\* The mappings a configuration may carry: the one above, or the one above
\* with the type of one column replaced by a type the code has no branch for.
Mappings ==
    {ColumnMapping} \cup
    {[ColumnMapping EXCEPT ![i].coltype = "int"] : i \in DOMAIN ColumnMapping}

\* The rule set of the configuration: well formed, or with a condition that
\* does not parse, or without the key of a phase the workflow executes.
RuleConfigs == {"ok", "unparsable condition", "missing phase"}

SeqsUpTo(S, n) == UNION {[1..k -> S] : k \in 0..n}

-----------------------------------------------------------------------------
(* Dicts.                                                                  *)

\* d[k] = v of a Python dict: the key is added when it is missing.
Put(d, k, v) == [x \in DOMAIN d \cup {k} |-> IF x = k THEN v ELSE d[x]]

\* The pnr codes of a row with n references.
PnrList(n) == [i \in 1..n |-> i]

\* One parsed row of the intake file.
Row(b, n) ==
    [birthday |-> b, pnr |-> PnrList(n), prestazioni |-> "Prevenzione",
     esame |-> "esame", insurance_name |-> "QUAS", codice_fiscale |-> "CF"]

RowSet == {Row(b, n) : b \in Birthdays, n \in 0..MaxBatchRefs}

\* The number of references of a list of rows.
RECURSIVE TotalRefs(_)
TotalRefs(rs) ==
    IF rs = <<>> THEN 0 ELSE Len(Head(rs)["pnr"]) + TotalRefs(Tail(rs))

\* The intake files of the model.
IntakeFiles ==
    {rs \in SeqsUpTo(RowSet, MaxPatients) : TotalRefs(rs) <= MaxBatchRefs}

-----------------------------------------------------------------------------
(* RULES_ENGINE: the rule set of config.yaml and engine.execute.           *)

\* rules_context of the configuration: for each phase, its rules in order.
\* A condition compares one named field of the context with a literal.
RuleSet ==
    [deal_breakers |->
        << [field |-> "age", op |-> "<", value |-> 18,
            actions |-> <<"minor">>],
           [field |-> "age", op |-> "<", value |-> 14,
            actions |-> <<"child", "guardian required">>] >>,
     patient_data |->
        << [field |-> "pnr_status", op |-> "==", value |-> 1,
            actions |-> <<"request submitted">>],
           [field |-> "error_codes", op |-> "!=", value |-> <<>>,
            actions |-> <<"never: no such field">>] >>,
     pdf_analysis |->
        << [field |-> "error_codes", op |-> "!=", value |-> <<>>,
            actions |-> <<"pdf invalid">>] >>,
     webportal |->
        << [field |-> "pnr_status", op |-> "==", value |-> 0,
            actions |-> <<"not found">>],
           [field |-> "pic", op |-> "==", value |-> None,
            actions |-> <<"no authorization">>] >>]

\* The condition of a rule on a context. A rule that names a field the
\* context does not define is skipped: it counts as not matching.
Matches(rule, context) ==
    /\ rule.field \in DOMAIN context
    /\ CASE rule.op = "<"  -> context[rule.field] < rule.value
         [] rule.op = "==" -> context[rule.field] = rule.value
         [] rule.op = "!=" -> context[rule.field] # rule.value

\* The actions of the rules of a list that match, in rule order, each rule's
\* actions in their order; nothing is reordered or dropped.
RECURSIVE MatchedActions(_, _)
MatchedActions(rules, context) ==
    IF rules = <<>> THEN <<>>
    ELSE (IF Matches(Head(rules), context) THEN Head(rules).actions ELSE <<>>)
         \o MatchedActions(Tail(rules), context)

MatchedCount(rules, context) ==
    Cardinality({i \in DOMAIN rules : Matches(rules[i], context)})

\* engine.execute(phase, context, comments): the result it returns.
Execute(phase, context) ==
    [passed  |-> MatchedCount(RuleSet[phase], context),
     actions |-> MatchedActions(RuleSet[phase], context)]

\* engine.execute appends the actions it returns to the audit trail.
Appended(trail, result) == trail \o result.actions

-----------------------------------------------------------------------------
(* Pure parts of process.py.                                               *)

\* relativedelta(datetime.now(), birthday).years: whole years.
Age(birthday) ==
    (Now[1] - birthday[1]) - (IF Now[2] < birthday[2] THEN 1 ELSE 0)

\* " / ".join(strings): a string is modelled as the sequence of its pieces,
\* the delimiter being one piece.
RECURSIVE Join(_)
Join(strings) ==
    IF strings = <<>> THEN <<>>
    ELSE IF Len(strings) = 1 THEN <<strings[1]>>
    ELSE <<strings[1], " / ">> \o Join(Tail(strings))

\* rule_engine.Rule("pnr_status in [1,2]").evaluate(patient_data)
StatusIn12(data) == data["pnr_status"] \in {1, 2}

\* rule_engine.Rule("pnr_status == 1").evaluate(patient_data)
StatusIs1(data) == data["pnr_status"] = 1

\* codes_to_try of _check_request_accepted.
CodesToTry(code_prestazioni) ==
    <<code_prestazioni, VisiteSpecialistiche, AltrePrestazioni>>

\* The inner loop: the index of the first item whose text is current_code,
\* 0 when the loop ends without a break.
FirstItem(items, current_code) ==
    IF \E i \in DOMAIN items : items[i] = current_code
    THEN CHOOSE i \in DOMAIN items :
            /\ items[i] = current_code
            /\ \A j \in 1..(i - 1) : items[j] # current_code
    ELSE 0

\* (Mutant) The candidates are tried from the last to the first.
RECURSIVE SelectItemLastFirst(_, _, _)
SelectItemLastFirst(codes, k, items) ==
    IF k > Len(codes) THEN 0
    ELSE IF SelectItemLastFirst(codes, k + 1, items) # 0
         THEN SelectItemLastFirst(codes, k + 1, items)
    ELSE FirstItem(items, codes[k])

\* The outer loop over codes_to_try from position k on: the index of the item
\* the loops break on, 0 when the outer loop ends without a break (the
\* ValueError of the for-else).
RECURSIVE SelectItem(_, _, _)
SelectItem(codes, k, items) ==
    IF k > Len(codes) THEN 0
    ELSE IF FirstItem(items, codes[k]) # 0 THEN FirstItem(items, codes[k])
    ELSE SelectItem(codes, k + 1, items)

-----------------------------------------------------------------------------
(* The log of calls.                                                       *)

\* One call to a collaborator, made while patient `pat` (0: none) and its
\* pnr `pnr` (0: none) were being processed.
Ev(op, pat, pnr, arg) == [op |-> op, pat |-> pat, pnr |-> pnr, arg |-> arg]

\* The calls that go to the portal (webdriver get/post, selenium, the
\* document download).
RemoteOps ==
    {"post_login", "get_status", "get_status_raised", "accept", "post_lookup",
     "fetch_pdf"}

\* engine.execute as a call: the phase and the result it returned.
ExecEv(phase, result, pat, pnr) ==
    Ev("execute", pat, pnr,
       [phase |-> phase, passed |-> result.passed, actions |-> result.actions])

\* The exception leaves process_patients: nothing in it catches.
Raise(kind) ==
    /\ pc' = "aborted"
    /\ error' = [kind |-> kind, pat |-> idx]

-----------------------------------------------------------------------------
(* Initial states.                                                         *)

AccIdle ==
    [pc |-> "idle", code |-> None, items |-> <<>>, clicks |-> <<>>,
     keys |-> <<>>, item |-> 0]

InitRest ==
    /\ patients = <<>>
    /\ pc = "parse"
    /\ idx = 0
    /\ ref = 0
    /\ patient_data = [pnr |-> <<>>]
    /\ comments = <<>>
    /\ error_codes = <<>>
    /\ response = <<>>
    /\ log = <<>>
    /\ error = NoError

\* The configuration is well formed.
ConfigOk ==
    /\ mapping = ColumnMapping
    /\ rules_config = "ok"

\* A run with credentials set, on any intake file within the bounds.
Init ==
    /\ ConfigOk
    /\ username = "user"
    /\ password = "secret"
    /\ rows \in IntakeFiles
    /\ acc = AccIdle
    /\ InitRest

-----------------------------------------------------------------------------
(* process_patients.                                                       *)

\* The else of the branches on item["coltype"]: the ValueError.
ItemRaises(item) == item.coltype \notin KnownTypes

\* The loop over the mapping, run for one row.
RowRaises(mp) == \E i \in DOMAIN mp : ItemRaises(mp[i])

\* The loop over the rows of csv.DictReader: the mapping is gone through
\* once per row, so not at all for a file without rows. (ast.literal_eval of
\* the array branch is taken to evaluate the list; process.py does not
\* import ast.)
ParseRaises(rs, mp) == rs # <<>> /\ RowRaises(mp)

\* patients = self._parse_input_from_hospital(self.path_file_input)
ParseInput ==
    /\ pc = "parse"
    /\ IF ParseRaises(rows, mapping)
       THEN /\ Raise("ValueError: coltype")
            /\ UNCHANGED patients
       ELSE /\ patients' = rows
            /\ pc' = "login"
            /\ UNCHANGED error
    /\ UNCHANGED <<mapping, rules_config, username, password, rows, idx, ref,
                   patient_data, comments, error_codes, response, log, acc>>

\* The guard of login: the credentials it refuses.
CredentialsRefused == username = "" \/ password = ""

\* The payload of the login form.
Payload == [UserName |-> username, Password |-> password]

\* (Mutant) The form is posted once.
LoginOnce ==
    /\ pc = "login"
    /\ IF CredentialsRefused
       THEN /\ Raise("ValueError: credentials")
            /\ UNCHANGED <<log, idx>>
       ELSE /\ log' = Append(log, Ev("post_login", 0, 0, Payload))
            /\ pc' = "loop"
            /\ idx' = 1
            /\ UNCHANGED error
    /\ UNCHANGED <<mapping, rules_config, username, password, rows, patients, ref, patient_data,
                   comments, error_codes, response, acc>>

\* self.login(): the check of the credentials, then the form posted twice.
Login ==
    /\ pc = "login"
    /\ IF CredentialsRefused
       THEN /\ Raise("ValueError: credentials")
            /\ UNCHANGED <<log, idx>>
       ELSE /\ log' = log \o << Ev("post_login", 0, 0, Payload),
                                Ev("post_login", 0, 0, Payload) >>
            /\ pc' = "loop"
            /\ idx' = 1
            /\ UNCHANGED error
    /\ UNCHANGED <<mapping, rules_config, username, password, rows, patients, ref, patient_data,
                   comments, error_codes, response, acc>>

\* self.login() when the n-th post raises.
LoginPostRaises ==
    /\ pc = "login"
    /\ ~CredentialsRefused
    /\ \E n \in 1..2 :
          log' = log \o [i \in 1..n |-> Ev("post_login", 0, 0, Payload)]
    /\ Raise("RemoteCommunicationError")
    /\ UNCHANGED <<mapping, rules_config, username, password, rows, patients, idx, ref, patient_data,
                   comments, error_codes, response, acc>>

\* self.webdriver.quit(), once the loop over the patients has ended.
Quit ==
    /\ pc = "loop"
    /\ idx > Len(patients)
    /\ log' = Append(log, Ev("quit", 0, 0, None))
    /\ pc' = "send"
    /\ UNCHANGED <<mapping, rules_config, username, password, rows, patients, idx, ref, patient_data,
                   comments, error_codes, response, error, acc>>

\* self.response.send_mail_to_hospital()
SendMail ==
    /\ pc = "send"
    /\ log' = Append(log, Ev("send_mail", 0, 0, None))
    /\ pc' = "done"
    /\ UNCHANGED <<mapping, rules_config, username, password, rows, patients, idx, ref, patient_data,
                   comments, error_codes, response, error, acc>>

-----------------------------------------------------------------------------
(* process_patient.                                                        *)

\* patient_data["age"] = relativedelta(datetime.now(), birthday).years
WithAge(data) == Put(data, "age", Age(data["birthday"]))

\* The context the deal_breakers phase is executed on.
GateContext(data) == WithAge(data)

\* (Mutant) The gate needs more than one matching rule.
RejectedOffByOne(engine_results) == engine_results.passed > 1

\* if engine_results["passed"] > 0
Rejected(engine_results) == engine_results.passed > 0

\* The comment of the rejected path: " / ".join(engine_results["actions"])
RejectedComment(engine_results) == Join(engine_results.actions)

\* (Mutant) The comment drops an action that was already made.
RECURSIVE WithoutRepeats(_)
WithoutRepeats(strings) ==
    IF strings = <<>> THEN <<>>
    ELSE LET front == SubSeq(strings, 1, Len(strings) - 1)
             last  == strings[Len(strings)]
         IN  IF \E i \in DOMAIN front : front[i] = last
             THEN WithoutRepeats(front)
             ELSE Append(WithoutRepeats(front), last)

FinalCommentWithoutRepeats(trail) == Join(WithoutRepeats(trail))

\* The comment of the reference-loop path: " / ".join(comments)
FinalComment(trail) == Join(trail)

\* self.response.add_patient(patient_data=..., comments=...)
AddPatient(resp, data, comment) ==
    Append(resp, [pat |-> idx, patient_data |-> data, comments |-> comment])

\* (Mutant) The list of the patient before is carried over.
StaleComments == comments

\* comments = []
FreshComments == <<>>

\* engine = RULES_ENGINE(self.config_yaml): the engine refuses a rule set
\* that is not well formed when it is built.
EngineRaises == rules_config # "ok"

\* process_patient up to the gate: the age, the deal_breakers phase, and for
\* a rejected patient the whole rejected path.
BeginPatient ==
    /\ pc = "loop"
    /\ idx <= Len(patients)
    /\ LET data    == GateContext(patients[idx])
           results == Execute("deal_breakers", data)
           trail   == Appended(FreshComments, results)
       IN  IF EngineRaises
           THEN /\ patient_data' = WithAge(patients[idx])
                /\ comments' = FreshComments
                /\ Raise("ConfigurationError: rules")
                /\ UNCHANGED <<idx, ref, response, log>>
           ELSE IF Rejected(results)
           THEN /\ patient_data' = Put(WithAge(patients[idx]), "pic", None)
                /\ response' = AddPatient(response, patient_data',
                                          RejectedComment(results))
                /\ log' = log \o << ExecEv("deal_breakers", results, idx, 0),
                                    Ev("add_patient", idx, 0, None) >>
                /\ comments' = trail
                /\ idx' = idx + 1
                /\ UNCHANGED <<pc, ref, error>>
           ELSE /\ patient_data' = WithAge(patients[idx])
                /\ comments' = trail
                /\ log' = Append(log, ExecEv("deal_breakers", results, idx, 0))
                /\ ref' = 1
                /\ pc' = "fetch"
                /\ UNCHANGED <<idx, response, error>>
    /\ UNCHANGED <<mapping, rules_config, username, password, rows, patients,
                   error_codes, acc>>

\* The loop over the pnr list has ended: the record is handed to the response.
EndPatient ==
    /\ pc = "fetch"
    /\ ref > Len(patient_data["pnr"])
    /\ response' = AddPatient(response, patient_data, FinalComment(comments))
    /\ log' = Append(log, Ev("add_patient", idx, 0, None))
    /\ idx' = idx + 1
    /\ pc' = "loop"
    /\ UNCHANGED <<mapping, rules_config, username, password, rows, patients, ref, patient_data,
                   comments, error_codes, error, acc>>

-----------------------------------------------------------------------------
(* process_pnr.                                                            *)

\* (Mutant) The pnr list is walked from its end.
PnrFromEnd == patient_data["pnr"][Len(patient_data["pnr"]) - ref + 1]

\* The pnr the loop is at.
Pnr == patient_data["pnr"][ref]

\* The category lists the portal may offer (the k-item elements).
Offered == SeqsUpTo(ItemTexts, MaxOffered)

\* The authorization id the portal's database holds for a pnr.
PicOf(pat, pnr) == <<"PIC", pat, pnr>>

\* The "Data" of the lookup's answer: the records that match the pnr.
LookupData(pat, pnr) ==
    {<<>>, <<PicOf(pat, pnr)>>, <<PicOf(pat, pnr), <<"PIC", 0, 0>>>>}

\* result.json()["Data"][0]["NumeroAuth"]
FirstNumeroAuth(data) == data[1]

\* (Mutant) The identifier lookup is made whatever the status.
AfterStatusAlwaysLookup(data) ==
    IF StatusIs1(data) THEN "accept" ELSE "lookup"

\* (Mutant) The two phases of the actionable branch are run on the else
\* branch as well.
AfterStatusAlwaysRules(data) ==
    IF StatusIn12(data)
    THEN (IF StatusIs1(data) THEN "accept" ELSE "lookup")
    ELSE "rules"

\* (Mutant) The accept-request procedure is run for the approved status.
AfterStatusSwapped(data) ==
    IF StatusIn12(data)
    THEN (IF StatusIs1(data) THEN "lookup" ELSE "accept")
    ELSE "webportal"

\* The branch taken after the status is stored.
AfterStatus(data) ==
    IF StatusIn12(data)
    THEN (IF StatusIs1(data) THEN "accept" ELSE "lookup")
    ELSE "webportal"

\* (Mutant) The else branch leaves the pic of an earlier reference in place.
StoreStatusKeepsPic(data, status) == Put(data, "pnr_status", status)

\* patient_data after the status is stored: the else branch sets pic to None.
StoreStatus(data, status) ==
    LET d == Put(data, "pnr_status", status)
    IN  IF StatusIn12(d) THEN d ELSE Put(d, "pic", None)

\* fetch_patient_data(pnr) and get_pnr_status, then the branch on the status.
FetchStatus ==
    /\ pc = "fetch"
    /\ ref <= Len(patient_data["pnr"])
    /\ \E status \in PnrStatuses :
          /\ patient_data' = StoreStatus(patient_data, status)
          /\ pc' = AfterStatus(patient_data')
          /\ log' = Append(log, Ev("get_status", idx, Pnr, status))
    /\ UNCHANGED <<mapping, rules_config, username, password, rows, patients, idx, ref, comments,
                   error_codes, response, error, acc>>

\* fetch_patient_data raises (self.webdriver.get fails).
FetchRaises ==
    /\ pc = "fetch"
    /\ ref <= Len(patient_data["pnr"])
    /\ log' = Append(log, Ev("get_status_raised", idx, Pnr, None))
    /\ Raise("RemoteCommunicationError")
    /\ UNCHANGED <<mapping, rules_config, username, password, rows, patients, idx, ref, patient_data,
                   comments, error_codes, response, acc>>

\* Whether _check_request_accepted raises the ValueError of its for-else.
CategoryNotFound(code_prestazioni, items) ==
    SelectItem(CodesToTry(code_prestazioni), 1, items) = 0

\* Some list the portal may offer makes the procedure return, or raise.
MayReturn(code_prestazioni) ==
    (\E items \in Offered : ~CategoryNotFound(code_prestazioni, items)) = TRUE

MayRaise(code_prestazioni) ==
    (\E items \in Offered : CategoryNotFound(code_prestazioni, items)) = TRUE

\* self._check_request_accepted(pnr, esame, prestazioni) returns.
Accept ==
    /\ pc = "accept"
    /\ MayReturn(patient_data["prestazioni"])
    /\ log' = Append(log, Ev("accept", idx, Pnr, None))
    /\ pc' = "lookup"
    /\ UNCHANGED <<mapping, rules_config, username, password, rows, patients, idx, ref, patient_data,
                   comments, error_codes, response, error, acc>>

\* self._check_request_accepted raises: no category of codes_to_try is offered.
AcceptRaises ==
    /\ pc = "accept"
    /\ MayRaise(patient_data["prestazioni"])
    /\ log' = Append(log, Ev("accept", idx, Pnr, None))
    /\ Raise("ValueError: prestazioni")
    /\ UNCHANGED <<mapping, rules_config, username, password, rows, patients, idx, ref, patient_data,
                   comments, error_codes, response, acc>>

\* patient_data["pic"] = self._fetch_pic_from_database(patient_pnr=pnr)
Lookup ==
    /\ pc = "lookup"
    /\ \E data \in LookupData(idx, Pnr) :
          /\ data # <<>>
          /\ patient_data' = Put(patient_data, "pic", FirstNumeroAuth(data))
          /\ log' = Append(log, Ev("post_lookup", idx, Pnr,
                                   FirstNumeroAuth(data)))
    /\ pc' = "pdf"
    /\ UNCHANGED <<mapping, rules_config, username, password, rows, patients, idx, ref, comments,
                   error_codes, response, error, acc>>

\* _fetch_pic_from_database raises: the post fails, or "Data" is empty.
LookupRaises ==
    /\ pc = "lookup"
    /\ log' = Append(log, Ev("post_lookup", idx, Pnr, <<>>))
    /\ Raise("RemoteCommunicationError")
    /\ UNCHANGED <<mapping, rules_config, username, password, rows, patients, idx, ref, patient_data,
                   comments, error_codes, response, acc>>

\* fetch_telerik_pdf(webdriver, patient_pic), then check_pdf(...).
FetchAndCheckPdf ==
    /\ pc = "pdf"
    /\ error_codes' = CheckPdf(patient_data["pic"])
    /\ log' = log \o << Ev("fetch_pdf", idx, Pnr, patient_data["pic"]),
                        Ev("check_pdf", idx, Pnr, patient_data["pic"]) >>
    /\ pc' = "rules"
    /\ UNCHANGED <<mapping, rules_config, username, password, rows, patients, idx, ref, patient_data,
                   comments, response, error, acc>>

\* fetch_telerik_pdf raises.
FetchPdfRaises ==
    /\ pc = "pdf"
    /\ log' = Append(log, Ev("fetch_pdf", idx, Pnr, patient_data["pic"]))
    /\ Raise("RemoteCommunicationError")
    /\ UNCHANGED <<mapping, rules_config, username, password, rows, patients, idx, ref, patient_data,
                   comments, error_codes, response, acc>>

\* The context of the pdf_analysis phase: the error codes alone.
PdfContext(codes) == [error_codes |-> codes]

\* (Mutant) The pdf_analysis phase is executed before the patient_data phase.
ActionablePhasesSwapped ==
    /\ pc = "rules"
    /\ LET r1 == Execute("patient_data", patient_data)
           r2 == Execute("pdf_analysis", PdfContext(error_codes))
       IN  /\ comments' = Appended(Appended(comments, r2), r1)
           /\ log' = log \o << ExecEv("pdf_analysis", r2, idx, Pnr),
                               ExecEv("patient_data", r1, idx, Pnr) >>
    /\ pc' = "webportal"
    /\ UNCHANGED <<mapping, rules_config, username, password, rows, patients,
                   idx, ref, patient_data, error_codes, response, error, acc>>

\* The two phases of the actionable branch: patient_data, then pdf_analysis.
ActionablePhases ==
    /\ pc = "rules"
    /\ LET r1 == Execute("patient_data", patient_data)
           r2 == Execute("pdf_analysis", PdfContext(error_codes))
       IN  /\ comments' = Appended(Appended(comments, r1), r2)
           /\ log' = log \o << ExecEv("patient_data", r1, idx, Pnr),
                               ExecEv("pdf_analysis", r2, idx, Pnr) >>
    /\ pc' = "webportal"
    /\ UNCHANGED <<mapping, rules_config, username, password, rows, patients, idx, ref, patient_data,
                   error_codes, response, error, acc>>

\* The webportal phase, which ends process_pnr on both branches.
WebportalPhase ==
    /\ pc = "webportal"
    /\ LET r == Execute("webportal", patient_data)
       IN  /\ comments' = Appended(comments, r)
           /\ log' = Append(log, ExecEv("webportal", r, idx, Pnr))
    /\ ref' = ref + 1
    /\ pc' = "fetch"
    /\ UNCHANGED <<mapping, rules_config, username, password, rows, patients, idx, patient_data,
                   error_codes, response, error, acc>>

-----------------------------------------------------------------------------
(* The specification of the batch run.                                     *)

Next ==
    \/ ParseInput
    \/ Login
    \/ LoginPostRaises
    \/ BeginPatient
    \/ FetchStatus
    \/ FetchRaises
    \/ Accept
    \/ AcceptRaises
    \/ Lookup
    \/ LookupRaises
    \/ FetchAndCheckPdf
    \/ FetchPdfRaises
    \/ ActionablePhases
    \/ WebportalPhase
    \/ EndPatient
    \/ Quit
    \/ SendMail

Spec == Init /\ [][Next]_vars

\* The same run, started with any credentials the environment may hold.
InitCred ==
    /\ ConfigOk
    /\ username \in Usernames
    /\ password \in Passwords
    /\ rows \in IntakeFiles
    /\ acc = AccIdle
    /\ InitRest

SpecCred == InitCred /\ [][Next]_vars

\* The same run, started with any configuration.
InitConfig ==
    /\ mapping \in Mappings
    /\ rules_config \in RuleConfigs
    /\ username = "user"
    /\ password = "secret"
    /\ rows \in IntakeFiles
    /\ acc = AccIdle
    /\ InitRest

SpecConfig == InitConfig /\ [][Next]_vars

-----------------------------------------------------------------------------
(* _check_request_accepted, one run followed step by step.                 *)

\* One click: on the element of an id, or on the index-th k-item.
Click(el, index) == [el |-> el, index |-> index]

\* The steps before the selection: the page is opened, the pnr typed, the
\* search submitted, the patient confirmed, the category widget opened.
AccOpen ==
    /\ acc.pc = "open"
    /\ acc' = [acc EXCEPT
                  !.pc = "select",
                  !.keys = <<[el |-> "PNR", text |-> "pnr"]>>,
                  !.clicks = << Click("cercaQuadro", 0), Click("btnQuadroOK", 0),
                               Click("k-multiselect", 0) >>]
    /\ UNCHANGED <<mapping, rules_config, username, password, rows, patients, pc, idx, ref,
                   patient_data, comments, error_codes, response, log, error>>

\* The two loops over codes_to_try and the k-items, then item.click(), or
\* the ValueError of the for-else.
AccSelect ==
    /\ acc.pc = "select"
    /\ LET i == SelectItem(CodesToTry(acc.code), 1, acc.items)
       IN  IF i = 0
           THEN acc' = [acc EXCEPT !.pc = "raised"]
           ELSE acc' = [acc EXCEPT
                          !.pc = "verify",
                          !.item = i,
                          !.clicks = Append(@, Click("k-item", i))]
    /\ UNCHANGED <<mapping, rules_config, username, password, rows, patients, pc, idx, ref,
                   patient_data, comments, error_codes, response, log, error>>

\* btnVerifica, the message read, the esame typed into NoteAuth.
AccVerify ==
    /\ acc.pc = "verify"
    /\ acc' = [acc EXCEPT
                  !.pc = "submit",
                  !.clicks = Append(@, Click("btnVerifica", 0)),
                  !.keys = Append(@, [el |-> "NoteAuth", text |-> "esame"])]
    /\ UNCHANGED <<mapping, rules_config, username, password, rows, patients, pc, idx, ref,
                   patient_data, comments, error_codes, response, log, error>>

\* The search submitted again, then the patient submitted to the database.
AccSubmit ==
    /\ acc.pc = "submit"
    /\ acc' = [acc EXCEPT
                  !.pc = "returned",
                  !.clicks = @ \o << Click("cercaQuadro", 0),
                                     Click("btnIstruisci", 0) >>]
    /\ UNCHANGED <<mapping, rules_config, username, password, rows, patients, pc, idx, ref,
                   patient_data, comments, error_codes, response, log, error>>

\* A call of the procedure, for any requested category and any offered list.
InitAccept ==
    /\ ConfigOk
    /\ username = "user"
    /\ password = "secret"
    /\ rows = <<>>
    /\ \E code \in RequestedCategories, items \in Offered :
          acc = [pc |-> "open", code |-> code, items |-> items,
                 clicks |-> <<>>, keys |-> <<>>, item |-> 0]
    /\ InitRest

NextAccept ==
    \/ AccOpen
    \/ AccSelect
    \/ AccVerify
    \/ AccSubmit

SpecAccept == InitAccept /\ [][NextAccept]_vars

-----------------------------------------------------------------------------
(* What the claims speak of.                                               *)

Has(d, k) == k \in DOMAIN d

\* The positions of the log at which a call of patient pat was made.
CallsOf(pat) == {i \in DOMAIN log : log[i].pat = pat}

\* The positions of the calls of one reference, of a given kind.
RefCalls(pat, pnr, op) ==
    {i \in DOMAIN log : log[i].pat = pat /\ log[i].pnr = pnr /\ log[i].op = op}

\* The positions of the executions of a phase for a patient.
PhaseCalls(pat, phase) ==
    {i \in DOMAIN log :
        /\ log[i].pat = pat
        /\ log[i].op = "execute"
        /\ log[i].arg.phase = phase}

\* The records the response holds for a patient.
Finalized(pat) == {i \in DOMAIN response : response[i].pat = pat}

\* The run has ended: process_patients returned, or an exception left it.
Ended == pc \in {"done", "aborted"}

\* The patient the deal_breakers phase rejected: its execution returned a
\* matched count above zero.
RejectedByPhase(pat) ==
    \E i \in PhaseCalls(pat, "deal_breakers") : log[i].arg.passed > 0

\* C1: a patient for whom the deal_breakers phase returned a matched count
\* above zero has no remote call in the log, at any time, and is finalized
\* at once, exactly once, with pic None; a patient whose derived age is under
\* 18 is rejected by the age rule as soon as its processing has begun.
C1_DealBreakerGate ==
    \A p \in DOMAIN patients :
        /\ RejectedByPhase(p) =>
              /\ \A i \in CallsOf(p) : log[i].op \notin RemoteOps
              /\ Cardinality(Finalized(p)) = 1
              /\ \A i \in Finalized(p) :
                    /\ Has(response[i].patient_data, "pic")
                    /\ response[i].patient_data["pic"] = None
        /\ (Age(patients[p]["birthday"]) < 18 /\ CallsOf(p) # {}) =>
              RejectedByPhase(p)

\* A rejected patient that has references is finalized, and a later patient
\* has been through a remote call of its own.
C1_Witness ==
    \E p \in DOMAIN patients :
        /\ RejectedByPhase(p)
        /\ Len(patients[p]["pnr"]) > 0
        /\ Finalized(p) # {}
        /\ \E i \in DOMAIN log : log[i].pat > p /\ log[i].op = "get_status"

\* The failures the claims call non-configuration failures: a remote call of
\* a patient raised, or the accept-request procedure found no category.
PatientFailed == error.kind # "none" /\ error.pat > 0

\* C2: when the run has ended after the processing of patient k raised,
\* every patient after k has been processed and finalized. (The claim adds
\* that the run is not aborted; this part of it alone is what is stated.)
C2_FailureIsolation ==
    (Ended /\ PatientFailed) =>
        \A j \in (error.pat + 1)..Len(patients) :
            /\ CallsOf(j) # {}
            /\ Finalized(j) # {}

\* The failure entries of the run: the code keeps no failure list; the
\* exception that left the run is counted for the patient it stopped at.
FailureEntries == IF PatientFailed THEN {error.pat} ELSE {}

\* C3: when a run that reached the patients has ended, every input patient
\* is finalized exactly once or has a failure entry.
C3_OutputComplete ==
    (Ended /\ (pc = "done" \/ PatientFailed)) =>
        \A j \in DOMAIN patients :
            \/ Cardinality(Finalized(j)) = 1
            \/ j \in FailureEntries

\* The session is open: both login posts were made.
LoggedIn == Cardinality({i \in DOMAIN log : log[i].op = "post_login"}) = 2

QuitCalls == {i \in DOMAIN log : log[i].op = "quit"}

\* C4: when a run that opened the session has ended, webdriver.quit was
\* called exactly once, and after every call made for a patient.
C4_SessionReleased ==
    (Ended /\ LoggedIn /\ (pc = "done" \/ PatientFailed)) =>
        /\ Cardinality(QuitCalls) = 1
        /\ \A q \in QuitCalls, i \in DOMAIN log : log[i].pat > 0 => i < q

\* The references of the input: patient and position in its pnr list.
Refs == {<<p, n>> \in (DOMAIN patients) \X (1..MaxBatchRefs) :
            n <= Len(patients[p]["pnr"])}

\* The status the portal's answer was resolved to for a reference; defined
\* once the fetch of the reference has returned.
ResolvedStatus(p, n) ==
    log[CHOOSE i \in RefCalls(p, n, "get_status") : TRUE].arg

Fetched(p, n) == RefCalls(p, n, "get_status") # {}

\* process_pnr has returned for the reference: its webportal phase ran.
RefDone(p, n) ==
    \E i \in PhaseCalls(p, "webportal") : log[i].pnr = n

\* C5: for a reference resolved to status 1, once the identifier lookup is
\* made the accept-request procedure has been invoked exactly once, before
\* it, and it is never invoked more than once; for a reference resolved to
\* status 2 the procedure is never invoked, and the lookup has been made by
\* the time process_pnr returns.
C5_AcceptBeforeLookup ==
    \A f \in DOMAIN log :
        log[f].op = "get_status" =>
            LET p == log[f].pat
                n == log[f].pnr
                status == log[f].arg
                accepts == RefCalls(p, n, "accept")
                lookups == RefCalls(p, n, "post_lookup")
            IN  /\ Cardinality(accepts) <= 1
                /\ Cardinality(lookups) <= 1
                /\ \A i \in accepts \cup lookups : f < i
                /\ status = 1 =>
                      /\ \A l \in lookups :
                            /\ Cardinality(accepts) = 1
                            /\ \A a \in accepts : a < l
                      /\ RefDone(p, n) => Cardinality(lookups) = 1
                /\ status = 2 =>
                      /\ accepts = {}
                      /\ RefDone(p, n) => Cardinality(lookups) = 1
                /\ status \notin {1, 2} =>
                      accepts = {} /\ lookups = {}

\* A reference resolved to status 1 went through the procedure and is done,
\* and a reference resolved to status 2 is done.
C5_Witness ==
    \E r1 \in Refs, r2 \in Refs :
        /\ Fetched(r1[1], r1[2]) /\ ResolvedStatus(r1[1], r1[2]) = 1
        /\ RefCalls(r1[1], r1[2], "accept") # {}
        /\ RefDone(r1[1], r1[2])
        /\ Fetched(r2[1], r2[2]) /\ ResolvedStatus(r2[1], r2[2]) = 2
        /\ RefDone(r2[1], r2[2])

Range(f) == {f[i] : i \in DOMAIN f}

\* The candidates of a requested category that the offered list carries.
OfferedCandidates(code, items) ==
    {k \in 1..3 : CodesToTry(code)[k] \in Range(items)}

ItemClicks == {i \in DOMAIN acc.clicks : acc.clicks[i].el = "k-item"}

ClickedIds == {acc.clicks[i].el : i \in DOMAIN acc.clicks}

\* C6 as claimed: the item clicked carries the text of the first candidate
\* that is offered; with no candidate offered the procedure raises, and it
\* has clicked nothing.
C6_AsClaimed ==
    /\ acc.pc \in {"verify", "submit", "returned"} =>
          /\ OfferedCandidates(acc.code, acc.items) # {}
          /\ \A k \in OfferedCandidates(acc.code, acc.items) :
                (\A j \in OfferedCandidates(acc.code, acc.items) : k <= j)
                   => acc.items[acc.item] = CodesToTry(acc.code)[k]
    /\ acc.pc = "raised" =>
          /\ OfferedCandidates(acc.code, acc.items) = {}
          /\ acc.clicks = <<>>

\* C6 (amended): the one k-item clicked carries the text of the first
\* candidate, in the order requested, "Visite specialistiche", "Altre
\* prestazioni", that the offered list carries, and is the first item with
\* that text; the procedure raises exactly when no candidate is offered, and
\* then it has clicked no k-item, not btnVerifica and not btnIstruisci (the
\* search, the confirmation of the patient and the opening of the category
\* list were clicked before the selection).
C6_CategorySelection ==
    /\ acc.pc \in {"verify", "submit", "returned"} =>
          /\ OfferedCandidates(acc.code, acc.items) # {}
          /\ \A k \in OfferedCandidates(acc.code, acc.items) :
                (\A j \in OfferedCandidates(acc.code, acc.items) : k <= j)
                   => acc.items[acc.item] = CodesToTry(acc.code)[k]
          /\ \A j \in 1..(acc.item - 1) : acc.items[j] # acc.items[acc.item]
          /\ Cardinality(ItemClicks) = 1
          /\ \A i \in ItemClicks : acc.clicks[i].index = acc.item
    /\ acc.pc = "raised" =>
          /\ OfferedCandidates(acc.code, acc.items) = {}
          /\ ClickedIds \cap {"k-item", "btnVerifica", "btnIstruisci"} = {}
    /\ acc.pc = "returned" => "btnIstruisci" \in ClickedIds

\* The procedure returned on a list that offers a fallback after another
\* text while the requested category is not offered.
C6_Witness ==
    /\ acc.pc = "returned"
    /\ acc.code \notin Range(acc.items)
    /\ acc.item > 1

\* The actions returned by the executions of the log from position i on that
\* were made for patient pat, in the order of the log.
RECURSIVE ActionsFrom(_, _)
ActionsFrom(i, pat) ==
    IF i > Len(log) THEN <<>>
    ELSE (IF log[i].pat = pat /\ log[i].op = "execute"
          THEN log[i].arg.actions ELSE <<>>) \o ActionsFrom(i + 1, pat)

\* A sequence of strings written out with " / " between them.
RECURSIVE Delimited(_)
Delimited(strings) ==
    IF Len(strings) <= 1 THEN strings
    ELSE Append(Delimited(SubSeq(strings, 1, Len(strings) - 1)), " / ")
         \o <<strings[Len(strings)]>>

\* C7: the comment of every finalized patient is the actions returned by the
\* phases executed for that patient, in the order they were executed,
\* nothing reordered or dropped, with " / " between them.
C7_FinalComment ==
    \A i \in DOMAIN response :
        response[i].comments = Delimited(ActionsFrom(1, response[i].pat))

\* A rejected patient with three actions of two rules is finalized, and so
\* is a patient whose two references produced the same actions twice.
C7_Witness ==
    /\ \E i \in DOMAIN response :
          /\ RejectedByPhase(response[i].pat)
          /\ Len(ActionsFrom(1, response[i].pat)) = 3
    /\ \E i \in DOMAIN response :
          LET a == ActionsFrom(1, response[i].pat)
          IN  /\ ~RejectedByPhase(response[i].pat)
              /\ \E j, k \in DOMAIN a : j < k /\ a[j] = a[k]

\* The pic the lookup of a reference returned.
LookedUp(p, n) ==
    log[CHOOSE i \in RefCalls(p, n, "post_lookup") : TRUE].arg

\* C8: the record of a finalized patient that was not rejected and has at
\* least one reference carries the status resolved for its last reference,
\* and the pic looked up for that reference if that status is 1 or 2, None
\* otherwise.
C8_LastReferenceWins ==
    \A i \in DOMAIN response :
        LET p    == response[i].pat
            data == response[i].patient_data
            n    == Len(data["pnr"])
        IN  (~RejectedByPhase(p) /\ n >= 1) =>
              /\ Has(data, "pnr_status") /\ Has(data, "pic")
              /\ data["pnr_status"] = ResolvedStatus(p, n)
              /\ data["pic"] = IF ResolvedStatus(p, n) \in {1, 2}
                               THEN LookedUp(p, n)
                               ELSE None

\* A finalized patient whose three references resolved to 2, then to 1,
\* then to a status that is not actionable.
C8_Witness ==
    \E i \in DOMAIN response :
        LET p == response[i].pat
        IN  /\ Len(response[i].patient_data["pnr"]) = 3
            /\ ~RejectedByPhase(p)
            /\ ResolvedStatus(p, 1) = 2
            /\ ResolvedStatus(p, 2) = 1
            /\ ResolvedStatus(p, 3) = 0

LoginPosts == {i \in DOMAIN log : log[i].op = "post_login"}

\* C9: once a call has been made for a patient, the log starts with two
\* login posts that carry the same payload, the credentials of the run, and
\* holds no other login post.
C9_LoginTwice ==
    (\E i \in DOMAIN log : log[i].pat > 0) =>
        /\ LoginPosts = {1, 2}
        /\ log[1].arg = log[2].arg
        /\ log[1].arg = [UserName |-> username, Password |-> password]

\* The run has ended with two patients processed, the second with a remote
\* call.
C9_Witness ==
    /\ pc = "done"
    /\ \E i \in DOMAIN log : log[i].pat = 2 /\ log[i].op = "get_status"

\* A credential is missing (unset) or empty.
CredentialMissing == username \in {None, ""} \/ password \in {None, ""}

\* C10: when the username or the password is missing or empty, no login
\* request is posted and no patient is processed: the run fails at login.
C10_CredentialCheck ==
    CredentialMissing =>
        /\ LoginPosts = {}
        /\ \A i \in DOMAIN log : log[i].pat = 0
        /\ pc \in {"parse", "login", "aborted"}

\* C11: the calls of the log are grouped by patient in input order, and
\* within a patient by reference in list order: from one call to the next
\* the patient never goes back, add_patient is the last call of its patient,
\* nothing is called for a patient after quit, and the reference of a patient
\* never goes back and never skips one; the records of the response are
\* those of the input rows, in input order.
C11_SequentialOrder ==
    /\ \A i \in 1..(Len(log) - 1) :
          LET a == log[i]
              b == log[i + 1]
          IN  /\ b.pat # 0 => a.pat <= b.pat
              /\ a.op \in {"quit", "send_mail"} => b.pat = 0
              /\ a.op = "add_patient" => b.pat # a.pat
              /\ (a.pat = b.pat /\ b.pat # 0 /\ b.op # "add_patient") =>
                    /\ a.pnr <= b.pnr
                    /\ b.pnr <= a.pnr + 1
              /\ (a.pat # b.pat /\ b.pat # 0) =>
                    /\ b.pat = a.pat + 1
                    /\ b.pnr = 0
                    /\ a.pat # 0 => a.op = "add_patient"
    /\ \A k \in DOMAIN response :
          /\ response[k].pat = k
          /\ response[k].patient_data["birthday"] = rows[k]["birthday"]
          /\ response[k].patient_data["pnr"] = rows[k]["pnr"]

\* The run is done on two patients, the first with two references that
\* went through the lookup, the second with one.
C11_Witness ==
    /\ pc = "done"
    /\ Len(patients) = 2
    /\ RefCalls(1, 1, "post_lookup") # {}
    /\ RefCalls(1, 2, "post_lookup") # {}
    /\ RefCalls(2, 1, "get_status") # {}

\* The mapping names a column type the code has no branch for.
UnknownColumnType == \E i \in DOMAIN mapping : mapping[i].coltype \notin KnownTypes

\* C12: with a column type that is not recognized in the mapping, the run
\* does not get past the parsing of the intake file, whatever its rows: it
\* ends there with the ValueError, no patient built and nothing called.
C12_UnknownColumnType ==
    UnknownColumnType =>
        \/ pc = "parse"
        \/ /\ pc = "aborted"
           /\ error.kind = "ValueError: coltype"
           /\ patients = <<>>
           /\ log = <<>>

\* C13: an error of the rule set is raised before any patient is processed:
\* not for a patient, and with no field of a patient written; and a run on a
\* rule set that is not well formed does not run to its end.
C13_RuleErrorsAtLoad ==
    /\ error.kind = "ConfigurationError: rules" =>
          /\ error.pat = 0
          /\ ~Has(patient_data, "age")
    /\ rules_config # "ok" => pc # "done"

\* The positions of the status fetches of a patient that resolved to a
\* status that requires the identifier lookup (1 or 2).
ActionableFetches(pat) ==
    {f \in DOMAIN log :
        /\ log[f].op = "get_status"
        /\ log[f].pat = pat
        /\ log[f].arg \in {1, 2}}

\* The record carries an authorization id: the key is set, and not to None.
HasPic(data) == Has(data, "pic") /\ data["pic"] # None

\* C14: the record of a finalized patient carries an authorization id only
\* if the deal_breakers phase did not reject the patient and one of its
\* references, at least, resolved to status 1 or 2; a patient with an empty
\* reference list is finalized without one.
C14_PicOnlyAfterLookup ==
    \A i \in DOMAIN response :
        LET p    == response[i].pat
            data == response[i].patient_data
        IN  /\ HasPic(data) => (~RejectedByPhase(p) /\ ActionableFetches(p) # {})
            /\ Len(data["pnr"]) = 0 => ~HasPic(data)

\* A run has finalized a record with an authorization id, and the record of
\* a patient that was not rejected and has no reference, or whose references
\* all resolved to status 0.
C14_Witness ==
    /\ pc = "done"
    /\ \E i \in DOMAIN response : HasPic(response[i].patient_data)
    /\ \E i \in DOMAIN response :
          /\ ~RejectedByPhase(response[i].pat)
          /\ ~HasPic(response[i].patient_data)
          /\ \/ Len(response[i].patient_data["pnr"]) = 0
             \/ ActionableFetches(response[i].pat) = {}

MailCalls == {i \in DOMAIN log : log[i].op = "send_mail"}

\* C15: send_mail_to_hospital is never called more than once, and when it is
\* called webdriver.quit has been called, every call made for a patient has
\* been made and every patient is in the response; and when a run that
\* opened the session has ended, it has been called.
C15_ReportedOnce ==
    /\ Cardinality(MailCalls) <= 1
    /\ \A m \in MailCalls :
          /\ \E q \in QuitCalls : q < m
          /\ \A i \in DOMAIN log : log[i].pat > 0 => i < m
          /\ \A j \in DOMAIN patients : Finalized(j) # {}
    /\ (Ended /\ LoggedIn /\ (pc = "done" \/ PatientFailed)) =>
          Cardinality(MailCalls) = 1

\* The steps of process_pnr that belong to the branch of status 1 and 2.
ActionableSteps == {"accept", "lookup", "pdf", "rules"}

\* C16: for a reference whose status resolved to neither 1 nor 2, the log
\* holds the status fetch and, right after it, the webportal phase, and no
\* other call for that reference (no accept-request, no lookup, no document
\* fetch or validation, no patient_data or pdf_analysis phase); and while
\* process_pnr is at the webportal phase of such a reference, pic is None,
\* whatever an earlier reference had set it to.
C16_NotActionable ==
    /\ \A f \in DOMAIN log :
          (log[f].op = "get_status" /\ log[f].arg \notin {1, 2}) =>
              \A i \in DOMAIN log :
                  (log[i].pat = log[f].pat /\ log[i].pnr = log[f].pnr) =>
                      \/ i = f
                      \/ /\ i = f + 1
                         /\ log[i].op = "execute"
                         /\ log[i].arg.phase = "webportal"
    /\ pc \in ActionableSteps => StatusIn12(patient_data)
    /\ (pc = "webportal" /\ ~StatusIn12(patient_data)) =>
          /\ Has(patient_data, "pic")
          /\ patient_data["pic"] = None

\* The second reference of a patient resolved to status 0 after the lookup
\* of the first had returned an id, and its webportal phase has run.
C16_Witness ==
    \E f \in DOMAIN log :
        /\ log[f].op = "get_status"
        /\ log[f].arg = 0
        /\ log[f].pnr = 2
        /\ RefDone(log[f].pat, 2)
        /\ \E i \in RefCalls(log[f].pat, 1, "post_lookup") : log[i].arg # <<>>

\* Position i of the log holds a call of kind op made for reference n of
\* patient p.
Step(i, p, n, op) ==
    /\ i >= 1
    /\ log[i].pat = p
    /\ log[i].pnr = n
    /\ log[i].op = op

\* Position i of the log holds the execution of a phase for the reference.
PhaseStep(i, p, n, phase) ==
    /\ Step(i, p, n, "execute")
    /\ log[i].arg.phase = phase

\* Every call of the log made for the reference is at a position from a to b.
OnlyWithin(p, n, a, b) ==
    \A i \in DOMAIN log :
        (log[i].pat = p /\ log[i].pnr = n) => (a <= i /\ i <= b)

\* The steps of the actionable branch, ending in the webportal phase at w:
\* lookup, document fetch, document validation, patient_data, pdf_analysis.
ActionableChain(w, p, n) ==
    /\ Step(w - 5, p, n, "post_lookup")
    /\ Step(w - 4, p, n, "fetch_pdf")
    /\ Step(w - 3, p, n, "check_pdf")
    /\ PhaseStep(w - 2, p, n, "patient_data")
    /\ PhaseStep(w - 1, p, n, "pdf_analysis")

\* C17: the webportal phase of a reference is the last call made for the
\* reference and is made once; before it the log holds, for that reference
\* and with nothing else of it in between or before: the status fetch alone
\* when the status is neither 1 nor 2; the status fetch, the accept-request
\* procedure when the status is 1, then the lookup, the document fetch, the
\* document validation, the patient_data phase and the pdf_analysis phase,
\* each once, when it is 1 or 2. Every reference of a finalized patient that
\* was not rejected has had its webportal phase.
C17_PhaseOrder ==
    /\ \A w \in DOMAIN log :
          (log[w].op = "execute" /\ log[w].arg.phase = "webportal") =>
              LET p == log[w].pat
                  n == log[w].pnr
              IN  \/ /\ Step(w - 1, p, n, "get_status")
                     /\ log[w - 1].arg \notin {1, 2}
                     /\ OnlyWithin(p, n, w - 1, w)
                  \/ /\ ActionableChain(w, p, n)
                     /\ Step(w - 6, p, n, "get_status")
                     /\ log[w - 6].arg = 2
                     /\ OnlyWithin(p, n, w - 6, w)
                  \/ /\ ActionableChain(w, p, n)
                     /\ Step(w - 6, p, n, "accept")
                     /\ Step(w - 7, p, n, "get_status")
                     /\ log[w - 7].arg = 1
                     /\ OnlyWithin(p, n, w - 7, w)
    /\ \A i \in DOMAIN response :
          ~RejectedByPhase(response[i].pat) =>
              \A n \in 1..Len(response[i].patient_data["pnr"]) :
                  RefDone(response[i].pat, n)

\* A patient with three references, resolved to status 1, 2 and 0, is
\* finalized.
C17_Witness ==
    \E i \in DOMAIN response :
        LET p == response[i].pat
        IN  /\ Len(response[i].patient_data["pnr"]) = 3
            /\ \E f \in RefCalls(p, 1, "get_status") : log[f].arg = 1
            /\ \E f \in RefCalls(p, 2, "get_status") : log[f].arg = 2
            /\ \E f \in RefCalls(p, 3, "get_status") : log[f].arg = 0

\* The steps at which process_patient is past the gate, inside its loop
\* over the references or about to finalize.
InPatient == {"fetch", "webportal"} \cup ActionableSteps

\* C18: while a patient is processed, comments holds the actions the phases
\* returned for that patient and nothing of a patient before it; and the
\* comment a patient is finalized with has as many entries as the phases of
\* that patient returned actions.
C18_TrailPerPatient ==
    /\ pc \in InPatient => comments = ActionsFrom(1, idx)
    /\ \A i \in DOMAIN response :
          Len(response[i].comments) =
              Len(Delimited(ActionsFrom(1, response[i].pat)))

\* Two patients that were not rejected are finalized, each after phases that
\* returned actions, and not the same actions.
C18_Witness ==
    /\ pc = "done"
    /\ Len(response) = 2
    /\ ~RejectedByPhase(1)
    /\ ~RejectedByPhase(2)
    /\ ActionsFrom(1, 1) # <<>>
    /\ ActionsFrom(1, 2) # <<>>
    /\ ActionsFrom(1, 1) # ActionsFrom(1, 2)

====
